---------------------------- MODULE Spec2Model ----------------------------
(***************************************************************************)
(* Zero-knowledge substring presence: the Merkle set-membership driver and *)
(* circuit, and the sliding-window / rolling-hash substring circuits.      *)
(*                                                                         *)
(* Field elements are the integers 0..fieldModulus-1.  Strings are         *)
(* sequences of rune code points.  Go arrays and slices are sequences;     *)
(* the Go index i is the TLA+ index i+1.                                   *)
(***************************************************************************)
EXTENDS Integers, Sequences, FiniteSets, TLC

(***************************************************************************)
(* Sizes.  The source fixes maxStr1Len = 70, maxStr2Len = 700000 and       *)
(* maxProofLen = 30; the model keeps their roles and their order           *)
(* (tree height < maxProofLen) at sizes TLC can enumerate.                 *)
(***************************************************************************)
maxStr1Len == 2

maxStr2Len == 3

maxProofLen == 3

\* number of queries the driver reads from the substrings file
MaxQueries == 2

\* rounds of the MiMC permutation
mimcRounds == 2

\* prime modulus of the scalar field (x -> x^5 is a permutation of it)
fieldModulus == 32749

\* 'a', 'b' (allowed by isAllowedURLRune) and '#' (not allowed)
Runes == {97, 98, 35}

VARIABLES
    pc,             \* position of main
    decodedEntries, \* the corpus as loaded, before truncation
    superString,    \* the corpus after truncation
    merkleTree,     \* the tree NewMerkleTree returned
    remaining,      \* queries of the substrings list not yet read
    idx,            \* loop index of the query loop
    substring,      \* the query being processed
    proofLength,    \* third result of the last GenerateProof
    witness,        \* the SubstringCircuit assignment of the current query
    stats,          \* ProcessingStats
    calls,          \* history: <<idx, operation>> for every call main made
    outcome,        \* history: per query read, how its iteration ended and
                    \* whether the query was a qualifying substring of the corpus
    rebuilt,        \* the tree of a second NewMerkleTree over the same corpus
    program,        \* which substring circuit is being evaluated
    assignment,     \* the values assigned to that circuit's inputs
    verdict         \* the circuit's found value and whether its assertion holds

\* the state of the membership driver
driverVars == <<pc, decodedEntries, superString, merkleTree, remaining, idx,
                substring, proofLength, witness, stats, calls, outcome>>

\* the state outside the membership driver
others == <<rebuilt, program, assignment, verdict>>

vars == <<driverVars, others>>

---------------------------------------------------------------------------
(* Field arithmetic of the frontend API *)

FAdd(a, b) == (a + b) % fieldModulus

FSub(a, b) == (a - b + fieldModulus) % fieldModulus

FMul(a, b) == (a * b) % fieldModulus

RECURSIVE FPow(_, _)
FPow(b, e) ==
    IF e = 0 THEN 1
    ELSE LET h == FPow(b, e \div 2)
             s == FMul(h, h)
         IN IF e % 2 = 1 THEN FMul(s, b) ELSE s

\* api.Div is multiplication by the field inverse (b^(q-2), which is 0 for 0)
FDiv(a, b) == IF b = 0 THEN 0 ELSE FMul(a, FPow(b, fieldModulus - 2))

IsZero(a) == IF a = 0 THEN 1 ELSE 0

Select(b, i1, i2) == IF b = 1 THEN i1 ELSE i2

And(a, b) == FMul(a, b)

Or(a, b) == FSub(FAdd(a, b), FMul(a, b))

---------------------------------------------------------------------------
(* MiMC in Miyaguchi-Preneel mode: Reset, Write..., Sum *)

mimcConstant(i) == (i * i * 7919 + 13 * i + 5) % fieldModulus

\* the message after round i of the permutation keyed with k (i = 0: before
\* the first round); every round is m := (m + k + c_i)^5
RECURSIVE mimcRound(_, _, _)
mimcRound(m, k, i) ==
    IF i = 0 THEN m
    ELSE LET tmp == FAdd(FAdd(mimcRound(m, k, i - 1), k), mimcConstant(i))
             sq  == FMul(tmp, tmp)
         IN FMul(FMul(sq, sq), tmp)

mimcEncrypt(m, k) == FAdd(mimcRound(m, k, mimcRounds), k)

\* the state h after the first i blocks of data: h := encrypt(x, h) + h + x
RECURSIVE mimcAbsorb(_, _)
mimcAbsorb(data, i) ==
    IF i = 0 THEN 0
    ELSE LET h == mimcAbsorb(data, i - 1)
         IN FAdd(FAdd(mimcEncrypt(data[i], h), h), data[i])

\* hFunc.Reset(); hFunc.Write(data[0]); ...; hFunc.Sum()
mimcSum(data) == mimcAbsorb(data, Len(data))

---------------------------------------------------------------------------
(* The Merkle tree *)

\* a predicate that lets every rune through
isAllowedURLRune_any(r) == TRUE

isAllowedURLRune(r) ==
    \/ (r >= 97 /\ r <= 122) \/ (r >= 65 /\ r <= 90)
    \/ (r >= 48 /\ r <= 57)
    \/ r \in {45, 46, 42}

isURLSubstring(substr) == \A i \in 1..Len(substr) : isAllowedURLRune(substr[i])

\* the padded form of a pattern: maxStr1Len entries, zero beyond the runes
padStr1(runePattern) ==
    [i \in 1..maxStr1Len |-> IF i <= Len(runePattern) THEN runePattern[i] ELSE 0]

computeHashOffCircuit(pattern) == mimcSum(padStr1(pattern))

\* the set substrSet of NewMerkleTree
substrSetOf(runeSuperString, maxPatternLen) ==
    { SubSeq(runeSuperString, start + 1, start + length) :
        <<length, start>> \in
          { ls \in (1..maxPatternLen) \X (0..Len(runeSuperString)) :
              /\ ls[2] <= Len(runeSuperString) - ls[1]
              /\ isURLSubstring(SubSeq(runeSuperString, ls[2] + 1, ls[2] + ls[1])) } }

\* byte-wise string order of sort.Strings
RECURSIVE stringLess(_, _)
stringLess(a, b) ==
    IF Len(a) = 0 THEN Len(b) > 0
    ELSE IF Len(b) = 0 THEN FALSE
    ELSE IF a[1] # b[1] THEN a[1] < b[1]
    ELSE stringLess(Tail(a), Tail(b))

sortStrings(patterns) == SortSeq(patterns, stringLess)

\* a pass that pairs an odd tail with itself instead of zero
nextLevelOf_selfPair(currentLevel) ==
    [k \in 1..((Len(currentLevel) + 1) \div 2) |->
        LET i == 2 * (k - 1)
            leftElem  == currentLevel[i + 1]
            rightElem == IF i + 1 < Len(currentLevel) THEN currentLevel[i + 2] ELSE leftElem
        IN mimcSum(<<leftElem, rightElem>>)]

\* one pass of the inner loop of buildLevels
nextLevelOf(currentLevel) ==
    [k \in 1..((Len(currentLevel) + 1) \div 2) |->
        LET i == 2 * (k - 1)
            leftElem  == currentLevel[i + 1]
            rightElem == IF i + 1 < Len(currentLevel) THEN currentLevel[i + 2] ELSE 0
        IN mimcSum(<<leftElem, rightElem>>)]

RECURSIVE levelsFrom(_)
levelsFrom(currentLevel) ==
    IF Len(currentLevel) > 1
    THEN <<currentLevel>> \o levelsFrom(nextLevelOf(currentLevel))
    ELSE <<currentLevel>>

\* mt.Nodes after buildLevels
buildLevels(leaves) == levelsFrom(leaves)

\* the possible orders of "for substr := range substrSet"
RECURSIVE seqOfSet(_)
seqOfSet(S) ==
    IF S = {} THEN <<>>
    ELSE LET x == CHOOSE y \in S : TRUE IN <<x>> \o seqOfSet(S \ {x})

RangeOrders(S) ==
    LET n == Cardinality(S)
        some == seqOfSet(S)
    IN { [i \in 1..n |-> some[p[i]]] : p \in Permutations(1..n) }

\* NewMerkleTree from "Convert patterns to leaves" on: the tree of a pattern slice
treeOfPatterns(patterns) ==
    LET leaves   == [i \in 1..Len(patterns) |-> computeHashOffCircuit(patterns[i])]
        nodes    == buildLevels(leaves)
    IN [ Patterns       |-> patterns,
         Leaves         |-> leaves,
         PatternToIndex |-> [p \in {patterns[i] : i \in 1..Len(patterns)} |->
                               (CHOOSE i \in 1..Len(patterns) : patterns[i] = p) - 1],
         Nodes          |-> nodes,
         Root           |-> nodes[Len(nodes)][1] ]

\* what the slice patterns can be after sort.Strings, over the orders in
\* which "range substrSet" can have filled it
sortedPatterns_unsorted(substrSet) == RangeOrders(substrSet)

sortedPatterns(substrSet) == { sortStrings(order) : order \in RangeOrders(substrSet) }

\* the trees NewMerkleTree can return for a corpus with at least one
\* qualifying substring
NewMerkleTree(runeSuperString, maxPatternLen) ==
    { treeOfPatterns(patterns) :
        patterns \in sortedPatterns(substrSetOf(runeSuperString, maxPatternLen)) }

NoTree == [Patterns |-> <<>>, Leaves |-> <<>>, PatternToIndex |-> <<>>,
           Nodes |-> <<>>, Root |-> 0]

\* the right-hand neighbour taken whatever the parity
xor1_next(i) == i + 1

\* currentIndex ^ 1
xor1(i) == IF i % 2 = 0 THEN i + 1 ELSE i - 1

zeros(n) == [i \in 1..n |-> 0]

\* the loop "for level := 0; level < treeHeight; level++" of GenerateProof
RECURSIVE proofWalk(_, _, _, _, _, _)
proofWalk(mt, level, currentIndex, proofPath, proofDir, proofLen) ==
    IF level >= Len(mt.Nodes) - 1
    THEN [proofPath |-> proofPath, proofDir |-> proofDir, proofLength |-> proofLen]
    ELSE LET siblingIndex == xor1(currentIndex)
             present == siblingIndex < Len(mt.Nodes[level + 1])
         IN proofWalk(mt, level + 1, currentIndex \div 2,
                IF present
                THEN [proofPath EXCEPT ![level + 1] = mt.Nodes[level + 1][siblingIndex + 1]]
                ELSE proofPath,
                IF present
                THEN [proofDir EXCEPT ![level + 1] = currentIndex % 2]
                ELSE proofDir,
                level + 1)

\* MerkleTree.GenerateProof
GenerateProof(mt, pattern) ==
    IF pattern \notin DOMAIN mt.PatternToIndex
    THEN [proofPath |-> zeros(maxProofLen), proofDir |-> zeros(maxProofLen),
          proofLength |-> 0]
    ELSE LET w == proofWalk(mt, 0, mt.PatternToIndex[pattern],
                            zeros(maxProofLen), zeros(maxProofLen), 0)
         IN [proofPath |-> [i \in 1..maxProofLen |->
                              IF i > w.proofLength THEN 0 ELSE w.proofPath[i]],
             proofDir  |-> [i \in 1..maxProofLen |->
                              IF i > w.proofLength THEN 0 ELSE w.proofDir[i]],
             proofLength |-> w.proofLength]

---------------------------------------------------------------------------
(* The membership circuit *)

\* "Prepare the pair to hash": <<left, right>> of iteration i
chainPair(circuit, currentHash, i) ==
    LET dirIsZero == IsZero(circuit.ProofPathDir[i])
        left      == Select(dirIsZero, currentHash, circuit.ProofPath[i])
        right     == Select(dirIsZero, circuit.ProofPath[i], currentHash)
    IN <<left, right>>

\* mutant: the direction is not looked at
chainStep_noDirection(circuit, currentHash, i) ==
    LET mask      == circuit.Masks[i]
        newHash   == mimcSum(<<currentHash, circuit.ProofPath[i]>>)
        deltaHash == FSub(newHash, currentHash)
    IN FAdd(currentHash, FMul(mask, deltaHash))

\* mutant: the new hash is taken whatever the mask
chainStep_noMask(circuit, currentHash, i) == mimcSum(chainPair(circuit, currentHash, i))

\* mutant: the pair is hashed in the opposite order
chainStep_swapped(circuit, currentHash, i) ==
    LET mask      == circuit.Masks[i]
        pair      == chainPair(circuit, currentHash, i)
        newHash   == mimcSum(<<pair[2], pair[1]>>)
        deltaHash == FSub(newHash, currentHash)
    IN FAdd(currentHash, FMul(mask, deltaHash))

\* one iteration of the loop "for i := 0; i < maxProofLen; i++" of Define
chainStep(circuit, currentHash, i) ==
    LET mask      == circuit.Masks[i]
        newHash   == mimcSum(chainPair(circuit, currentHash, i))
        deltaHash == FSub(newHash, currentHash)
    IN FAdd(currentHash, FMul(mask, deltaHash))

\* currentHash before iteration i (Go index i-1); i = maxProofLen+1: after the loop
RECURSIVE chainAt(_, _)
chainAt(circuit, i) ==
    IF i = 1 THEN mimcSum(circuit.Str1)
    ELSE chainStep(circuit, chainAt(circuit, i - 1), i - 1)

\* how many times each loop of Define runs: the loop over Str1 and the chain loop
loopCounts(circuit) == [hashLoop |-> maxStr1Len, chainLoop |-> maxProofLen]

\* SubstringCircuit.Define: TRUE iff api.AssertIsEqual(currentHash, MerkleRoot) holds
Define(circuit) == chainAt(circuit, maxProofLen + 1) = circuit.MerkleRoot

\* the witness main builds from a query and the result of GenerateProof
buildWitness(mt, query, proof) ==
    [ Str1         |-> padStr1(query),
      Masks        |-> [i \in 1..maxProofLen |-> IF i - 1 < proof.proofLength THEN 1 ELSE 0],
      ProofPath    |-> [i \in 1..maxProofLen |->
                          IF i - 1 < proof.proofLength THEN proof.proofPath[i] ELSE 0],
      ProofPathDir |-> [i \in 1..maxProofLen |->
                          IF i - 1 < proof.proofLength THEN proof.proofDir[i] ELSE 0],
      MerkleRoot   |-> mt.Root ]

NoWitness == [Str1 |-> <<>>, Masks |-> <<>>, ProofPath |-> <<>>,
              ProofPathDir |-> <<>>, MerkleRoot |-> 0]

---------------------------------------------------------------------------
(* main of the membership driver *)

\* runes of a qualifying substring: ASCII letters, digits, '-', '.', '*'
AllowedRunes == (97..122) \cup (65..90) \cup (48..57) \cup {45, 46, 42}

OccursIn(s, text) ==
    \E off \in 0..(Len(text) - Len(s)) : SubSeq(text, off + 1, off + Len(s)) = s

\* s is a qualifying substring of the (truncated) corpus
Qualifying(s) ==
    /\ Len(s) >= 1
    /\ Len(s) <= maxStr1Len
    /\ \A i \in 1..Len(s) : s[i] \in AllowedRunes
    /\ OccursIn(s, superString)

Strings(maxLen) == UNION { [1..n -> Runes] : n \in 0..maxLen }

\* "if len(runeSuperString) > maxStr2Len { runeSuperString = runeSuperString[:maxStr2Len] }"
\* the corpus passed on whole, whatever its length
truncate_none(runeSuperString) == runeSuperString

truncate(runeSuperString) ==
    IF Len(runeSuperString) > maxStr2Len
    THEN SubSeq(runeSuperString, 1, maxStr2Len)
    ELSE runeSuperString

\* mutant: the test compares with a negative sentinel
isNotFound_negative(proofLen) == proofLen < 0

\* "if proofLength == 0" of main
isNotFound(proofLen) == proofLen = 0

NoStats == [SuccessfulProofs |-> 0, FailedProofs |-> 0, NotFoundPatterns |-> 0]

NoAssignment == [Str1 |-> <<>>, Str2 |-> <<>>, EffectiveLength |-> 0]

NoVerdict == [found |-> 0, accepted |-> FALSE, done |-> FALSE,
              basePowVar |-> 0, patternHash |-> 0, currentHash |-> <<>>]

InitDriver ==
    /\ pc = "load"
    /\ decodedEntries = <<>>
    /\ superString = <<>>
    /\ merkleTree = NoTree
    /\ remaining = 0
    /\ idx = 0
    /\ substring = <<>>
    /\ proofLength = 0
    /\ witness = NoWitness
    /\ stats = NoStats
    /\ calls = {}
    /\ outcome = <<>>

Init ==
    /\ InitDriver
    /\ rebuilt = NoTree
    /\ program = "membership"
    /\ assignment = NoAssignment
    /\ verdict = NoVerdict

\* loadJSONFile twice; a failure is log.Fatalf
LoadInputs ==
    /\ pc = "load"
    /\ \/ /\ \E entries \in Strings(maxStr2Len + 1), n \in 0..MaxQueries :
                /\ decodedEntries' = entries
                /\ remaining' = n
          /\ pc' = "build"
       \/ /\ pc' = "fatal"
          /\ UNCHANGED <<decodedEntries, remaining>>
    /\ UNCHANGED <<superString, merkleTree, idx, substring, proofLength, witness,
                   stats, calls, outcome>>
    /\ UNCHANGED others

\* truncation and NewMerkleTree; mt.Nodes[len(mt.Nodes)-1][0] panics on no leaves
BuildTree ==
    /\ pc = "build"
    /\ superString' = truncate(decodedEntries)
    /\ LET substrSet == substrSetOf(superString', maxStr1Len)
       IN IF substrSet = {}
          THEN pc' = "panic" /\ UNCHANGED merkleTree
          ELSE /\ merkleTree' \in NewMerkleTree(superString', maxStr1Len)
               /\ pc' = "compile"
    /\ UNCHANGED <<decodedEntries, remaining, idx, substring, proofLength, witness,
                   stats, calls, outcome>>
    /\ UNCHANGED others

\* frontend.Compile; an error is panic(err)
Compile ==
    /\ pc = "compile"
    /\ calls' = calls \cup {<<-1, "Compile">>}
    /\ \/ pc' = "setup"
       \/ pc' = "panic"
    /\ UNCHANGED <<decodedEntries, superString, merkleTree, remaining, idx, substring,
                   proofLength, witness, stats, outcome>>
    /\ UNCHANGED others

\* groth16.Setup; an error is panic(err)
Setup ==
    /\ pc = "setup"
    /\ calls' = calls \cup {<<-1, "Setup">>}
    /\ \/ pc' = "loop"
       \/ pc' = "panic"
    /\ UNCHANGED <<decodedEntries, superString, merkleTree, remaining, idx, substring,
                   proofLength, witness, stats, outcome>>
    /\ UNCHANGED others

\* "continue", and the end of the loop body: the iteration's locals go out of scope
endIteration(result, occurs) ==
    /\ pc' = "loop"
    /\ idx' = idx + 1
    /\ substring' = <<>>
    /\ proofLength' = 0
    /\ witness' = NoWitness
    /\ outcome' = Append(outcome, [result |-> result, occurs |-> occurs])

nextIteration(result) == endIteration(result, Qualifying(substring))

\* the loop body up to the witness assignment
ProcessQuery ==
    /\ pc = "loop"
    /\ remaining > 0
    /\ remaining' = remaining - 1
    /\ \E q \in Strings(maxStr1Len) :
         LET proof == GenerateProof(merkleTree, q)
         IN IF q = <<>>
            THEN endIteration("empty", FALSE) /\ UNCHANGED <<stats, calls>>
            ELSE /\ calls' = calls \cup {<<idx, "GenerateProof">>}
                 /\ IF isNotFound(proof.proofLength)
                    THEN /\ stats' = [stats EXCEPT !.NotFoundPatterns = @ + 1]
                         /\ endIteration(IF proof.proofPath = zeros(maxProofLen)
                                            /\ proof.proofDir = zeros(maxProofLen)
                                         THEN "notFound" ELSE "notFoundNonZero",
                                         Qualifying(q))
                    ELSE /\ substring' = q
                         /\ proofLength' = proof.proofLength
                         /\ witness' = buildWitness(merkleTree, q, proof)
                         /\ pc' = "newWitness"
                         /\ UNCHANGED <<stats, idx, outcome>>
    /\ UNCHANGED <<decodedEntries, superString, merkleTree>>
    /\ UNCHANGED others

\* frontend.NewWitness
NewWitness ==
    /\ pc = "newWitness"
    /\ calls' = calls \cup {<<idx, "NewWitness">>}
    /\ \/ pc' = "prove" /\ UNCHANGED <<idx, substring, proofLength, witness, outcome>>
       \/ nextIteration("witnessError")
    /\ UNCHANGED <<decodedEntries, superString, merkleTree, remaining, stats>>
    /\ UNCHANGED others

\* groth16.Prove: no proof exists unless the witness satisfies Define
Prove ==
    /\ pc = "prove"
    /\ calls' = calls \cup {<<idx, "Prove">>}
    /\ \/ /\ Define(witness)
          /\ pc' = "public"
          /\ UNCHANGED <<idx, substring, proofLength, witness, outcome>>
       \/ nextIteration("proveError")
    /\ UNCHANGED <<decodedEntries, superString, merkleTree, remaining, stats>>
    /\ UNCHANGED others

\* witnessInstance.Public
Public ==
    /\ pc = "public"
    /\ \/ pc' = "verify" /\ UNCHANGED <<idx, substring, proofLength, witness, outcome>>
       \/ nextIteration("publicError")
    /\ UNCHANGED <<decodedEntries, superString, merkleTree, remaining, stats, calls>>
    /\ UNCHANGED others

\* groth16.Verify and the two counters
Verify ==
    /\ pc = "verify"
    /\ calls' = calls \cup {<<idx, "Verify">>}
    /\ \/ stats' = [stats EXCEPT !.FailedProofs = @ + 1] /\ nextIteration("failed")
       \/ stats' = [stats EXCEPT !.SuccessfulProofs = @ + 1] /\ nextIteration("verified")
    /\ UNCHANGED <<decodedEntries, superString, merkleTree, remaining>>
    /\ UNCHANGED others

\* the final statistics: VerificationTime / Duration(Successful + Failed)
FinalStats ==
    /\ pc = "loop"
    /\ remaining = 0
    /\ pc' = IF stats.SuccessfulProofs + stats.FailedProofs = 0 THEN "panic" ELSE "done"
    /\ UNCHANGED <<decodedEntries, superString, merkleTree, remaining, idx, substring,
                   proofLength, witness, stats, calls, outcome>>
    /\ UNCHANGED others

Next ==
    \/ LoadInputs
    \/ BuildTree
    \/ Compile
    \/ Setup
    \/ ProcessQuery
    \/ NewWitness
    \/ Prove
    \/ Public
    \/ Verify
    \/ FinalStats

Spec == Init /\ [][Next]_vars

---------------------------------------------------------------------------
(* A prover that does not use the witness main built.  The secret inputs   *)
(* of the circuit are the prover's to choose; these actions replace the    *)
(* witness of the current query before it is handed to the backend.        *)

\* the witness main builds for the current query
honestWitness ==
    buildWitness(merkleTree, substring, GenerateProof(merkleTree, substring))

\* every node value of the tree
NodeValues ==
    UNION { { merkleTree.Nodes[l][k] : k \in 1..Len(merkleTree.Nodes[l]) } :
            l \in 1..Len(merkleTree.Nodes) }

TamperValues == {0, 1, 2} \cup NodeValues

\* one replacement, of the witness of a batch of one query (every iteration
\* starts from the same tree and keeps nothing of the previous one)
CanTamper ==
    /\ pc = "newWitness"
    /\ outcome = <<>>
    /\ remaining = 0
    /\ witness = honestWitness

TamperPath ==
    /\ CanTamper
    /\ \E i \in 1..maxProofLen, v \in TamperValues :
          /\ v # witness.ProofPath[i]
          /\ witness' = [witness EXCEPT !.ProofPath[i] = v]
    /\ UNCHANGED <<pc, decodedEntries, superString, merkleTree, remaining, idx,
                   substring, proofLength, stats, calls, outcome>>
    /\ UNCHANGED others

TamperDir ==
    /\ CanTamper
    /\ \E i \in 1..maxProofLen, v \in {0, 1, 2} :
          /\ v # witness.ProofPathDir[i]
          /\ witness' = [witness EXCEPT !.ProofPathDir[i] = v]
    /\ UNCHANGED <<pc, decodedEntries, superString, merkleTree, remaining, idx,
                   substring, proofLength, stats, calls, outcome>>
    /\ UNCHANGED others

TamperStr1 ==
    /\ CanTamper
    /\ \E j \in 1..maxStr1Len, c \in Runes \cup {0} :
          /\ c # witness.Str1[j]
          /\ witness' = [witness EXCEPT !.Str1[j] = c]
    /\ UNCHANGED <<pc, decodedEntries, superString, merkleTree, remaining, idx,
                   substring, proofLength, stats, calls, outcome>>
    /\ UNCHANGED others

TamperMask ==
    /\ CanTamper
    /\ \E i \in 1..maxProofLen, v \in {0, 1, 2} :
          /\ v # witness.Masks[i]
          /\ witness' = [witness EXCEPT !.Masks[i] = v]
    /\ UNCHANGED <<pc, decodedEntries, superString, merkleTree, remaining, idx,
                   substring, proofLength, stats, calls, outcome>>
    /\ UNCHANGED others

\* The prover claims any string s and solves
\*     cur + Masks[0] * (newHash - cur) = (the honest chain value after level 0)
\* for Masks[0]: the circuit multiplies by the mask without constraining it.
ForgeMask ==
    /\ CanTamper
    /\ \E s \in Strings(maxStr1Len) :
          LET forged == [witness EXCEPT !.Str1 = padStr1(s)]
              cur    == chainAt(forged, 1)
              new    == mimcSum(chainPair(forged, cur, 1))
              target == chainAt(witness, 2)
          IN /\ padStr1(s) # witness.Str1
             /\ \E num \in {FSub(target, cur)}, den \in {FSub(new, cur)} :
                   /\ den # 0
                   /\ witness' = [forged EXCEPT !.Masks[1] = FDiv(num, den)]
    /\ UNCHANGED <<pc, decodedEntries, superString, merkleTree, remaining, idx,
                   substring, proofLength, stats, calls, outcome>>
    /\ UNCHANGED others

NextTamper ==
    \/ Next
    \/ TamperPath
    \/ TamperDir
    \/ TamperStr1
    \/ TamperMask
    \/ ForgeMask

SpecTamper == Init /\ [][NextTamper]_vars

---------------------------------------------------------------------------
(* Building the commitment a second time over the same corpus *)

Rebuild ==
    /\ pc = "compile"
    /\ rebuilt = NoTree
    /\ rebuilt' \in NewMerkleTree(superString, maxStr1Len)
    /\ UNCHANGED <<driverVars, program, assignment, verdict>>

NextDet ==
    \/ LoadInputs
    \/ BuildTree
    \/ Rebuild

SpecDet == Init /\ [][NextDet]_vars

---------------------------------------------------------------------------
(* The sliding-window and rolling-hash substring circuits.  Each has its own *)
(* SubstringCircuit and Define; the fixed-size ones declare Str1 and Str2 as  *)
(* arrays (500/2000, 3/100, 3/1000000), the effective-length one reads the    *)
(* first EffectiveLength entries of a Str1 of maxStr1Len = 70.                *)

\* len(circuit.Str1) and len(circuit.Str2) of the fixed-size circuits
fixedStr1Len == 3

fixedStr2Len == 4

\* maxStr1Len and maxStr2Len of the effective-length circuit
effStr1Len == 4

effStr2Len == 5

\* width of the integer basePow.Int64() returns (64 in the source: 2^(L-1)
\* fits for L <= 63 of the 70 lengths; here for L <= IntBits - 1)
IntBits == 3

\* character codes assigned to the circuits' inputs
Chars == {97, 98}

\* a Go integer as a field element
toField(v) == v % fieldModulus

RECURSIVE pow(_, _)
pow(b, e) == IF e = 0 THEN 1 ELSE b * pow(b, e - 1)

\* ---- rabin_karp_circuit.go, first program: hash and character comparison

rk_base == 256

rk_prime == 997

\* the helper mod: a - (a / prime) * prime with the API's Div
rk_mod(a, prime) ==
    LET div == FDiv(a, toField(prime))
        mul == FMul(div, toField(prime))
    IN FSub(a, mul)

\* the two hash loops: the hash of the first n entries of str
RECURSIVE rk_hashLoop(_, _)
rk_hashLoop(str, n) ==
    IF n = 0 THEN 0
    ELSE rk_mod(FAdd(FMul(rk_hashLoop(str, n - 1), rk_base), str[n]), rk_prime)

\* basePow after i iterations of Mul(...).Mod(...)
RECURSIVE rk_basePow(_)
rk_basePow(i) == IF i = 0 THEN 1 ELSE (rk_basePow(i - 1) * rk_base) % rk_prime

\* basePow.Int64(): basePow is below prime, so the conversion is exact
rk_basePowVar(circuit) == toField(rk_basePow(Len(circuit.Str1) - 1))

\* currentHash on entry to the window at offset i
RECURSIVE rk_currentHash(_, _)
rk_currentHash(circuit, i) ==
    IF i = 0 THEN rk_hashLoop(circuit.Str2, Len(circuit.Str1))
    ELSE LET h0 == rk_currentHash(circuit, i - 1)
             h1 == rk_mod(FSub(h0, FMul(circuit.Str2[i], rk_basePowVar(circuit))), rk_prime)
             h2 == rk_mod(FMul(h1, rk_base), rk_prime)
         IN rk_mod(FAdd(h2, circuit.Str2[i + Len(circuit.Str1)]), rk_prime)

rk_isMatch(circuit, i) ==
    IsZero(FSub(rk_currentHash(circuit, i), rk_hashLoop(circuit.Str1, Len(circuit.Str1))))

\* charMatch after j iterations of the inner loop of the window at offset i
RECURSIVE rk_charMatchLoop(_, _, _)
rk_charMatchLoop(circuit, i, j) ==
    IF j = 0 THEN 1
    ELSE And(rk_charMatchLoop(circuit, i, j - 1),
             IsZero(FSub(circuit.Str2[i + j], circuit.Str1[j])))

rk_charMatch_skipped(circuit, i) == 1

rk_charMatch(circuit, i) == rk_charMatchLoop(circuit, i, Len(circuit.Str1))

\* found after the window at offset i
RECURSIVE rk_found(_, _)
rk_found(circuit, i) ==
    IF i < 0 THEN 0
    ELSE Or(rk_found(circuit, i - 1), And(rk_isMatch(circuit, i), rk_charMatch(circuit, i)))

lastOffset(circuit) == Len(circuit.Str2) - Len(circuit.Str1)

\* api.AssertIsEqual(found, 1)
rk_Define(circuit) == rk_found(circuit, lastOffset(circuit)) = 1

\* ---- rabin_karp_circuit.go, second program: hash comparison only

rk2_base == 256

rk2_prime == 101

rk2_modIterations == 5

\* the helper mod: the subtraction repeated a fixed number of times
RECURSIVE rk2_modLoop(_, _, _)
rk2_modLoop(a, prime, n) ==
    IF n = 0 THEN a
    ELSE LET prev == rk2_modLoop(a, prime, n - 1)
         IN FSub(prev, FMul(toField(prime), FDiv(prev, toField(prime))))

\* mod, applied to the value of its argument (every call site passes prime)
rk2_mod[a \in 0..(fieldModulus - 1)] == rk2_modLoop(a, rk2_prime, rk2_modIterations)

RECURSIVE rk2_hashLoop(_, _)
rk2_hashLoop(str, n) ==
    IF n = 0 THEN 0
    ELSE rk2_mod[FAdd(FMul(rk2_hashLoop(str, n - 1), rk2_base), str[n])]

RECURSIVE rk2_basePow(_)
rk2_basePow(i) == IF i = 0 THEN 1 ELSE (rk2_basePow(i - 1) * rk2_base) % rk2_prime

RECURSIVE rk2_currentHash(_, _)
rk2_currentHash(circuit, i) ==
    IF i = 0 THEN rk2_hashLoop(circuit.Str2, Len(circuit.Str1))
    ELSE LET h0 == rk2_currentHash(circuit, i - 1)
             h1 == FSub(h0, FMul(circuit.Str2[i], toField(rk2_basePow(Len(circuit.Str1) - 1))))
             h2 == FMul(h1, rk2_base)
         IN rk2_mod[FAdd(h2, circuit.Str2[i + Len(circuit.Str1)])]

rk2_isMatch(circuit, i) ==
    IsZero(FSub(rk2_currentHash(circuit, i), rk2_hashLoop(circuit.Str1, Len(circuit.Str1))))

RECURSIVE rk2_found(_, _)
rk2_found(circuit, i) ==
    IF i < 0 THEN 0
    ELSE Or(rk2_found(circuit, i - 1), rk2_isMatch(circuit, i))

rk2_Define(circuit) == rk2_found(circuit, lastOffset(circuit)) = 1

\* ---- the effective-length program: base 2, no modulus

eff_base == 2

RECURSIVE eff_hashLoop(_, _)
eff_hashLoop(str, n) ==
    IF n = 0 THEN 0
    ELSE FAdd(FMul(eff_hashLoop(str, n - 1), eff_base), str[n])

\* basePow after the loop: base^(patternLength-1), a big.Int
eff_basePow(patternLength) == pow(eff_base, patternLength - 1)

\* how many times each loop of Define runs: the two hash loops, the basePow
\* loop, the window loop and the rolling update inside it
eff_loopCounts(circuit) ==
    LET patternLength == circuit.EffectiveLength
        textLength    == Len(circuit.Str2)
    IN [ patternHashLoop |-> circuit.EffectiveLength,
         currentHashLoop |-> patternLength,
         basePowLoop     |-> IF patternLength - 1 > 0 THEN patternLength - 1 ELSE 0,
         windowLoop      |-> IF textLength - patternLength + 1 > 0
                             THEN textLength - patternLength + 1 ELSE 0,
         rollingUpdates  |-> IF textLength - patternLength > 0
                             THEN textLength - patternLength ELSE 0 ]

IntRange == (-pow(2, IntBits - 1))..(pow(2, IntBits - 1) - 1)

\* big.Int.Int64(): the value when it fits, undefined when it does not
Int64(x) == IF x \in IntRange THEN {x} ELSE IntRange

\* currentHash on entry to the window at offset i, for the value basePowVar got
RECURSIVE eff_currentHash(_, _, _)
eff_currentHash(circuit, basePowVar, i) ==
    IF i = 0 THEN eff_hashLoop(circuit.Str2, circuit.EffectiveLength)
    ELSE LET h0 == eff_currentHash(circuit, basePowVar, i - 1)
             h1 == FSub(h0, FMul(circuit.Str2[i], basePowVar))
             h2 == FMul(h1, eff_base)
         IN FAdd(h2, circuit.Str2[i + circuit.EffectiveLength])

eff_isMatch(circuit, basePowVar, i) ==
    IsZero(FSub(eff_currentHash(circuit, basePowVar, i),
                eff_hashLoop(circuit.Str1, circuit.EffectiveLength)))

RECURSIVE eff_found(_, _, _)
eff_found(circuit, basePowVar, i) ==
    IF i < 0 THEN 0
    ELSE Or(eff_found(circuit, basePowVar, i - 1), eff_isMatch(circuit, basePowVar, i))

eff_Define(circuit, basePowVar) ==
    eff_found(circuit, basePowVar, Len(circuit.Str2) - circuit.EffectiveLength) = 1

\* ---- main.go: the direct sliding window

\* isMatch after j iterations of the inner loop: every iteration assigns it
\* anew from the j-th comparison alone
sw_isMatchLoop(circuit, i, j) ==
    IF j = 0 THEN 1
    ELSE IsZero(FSub(circuit.Str1[j], circuit.Str2[i + j]))

sw_isMatch(circuit, i) == sw_isMatchLoop(circuit, i, Len(circuit.Str1))

RECURSIVE sw_found(_, _)
sw_found(circuit, i) ==
    IF i < 0 THEN 0
    ELSE Or(sw_found(circuit, i - 1), sw_isMatch(circuit, i))

sw_Define(circuit) == sw_found(circuit, lastOffset(circuit)) = 1

\* ---- part_002: the rolling hash with prime added in place of a modulus

ap_base == 256

ap_prime == 101

\* the two hash loops: the hash of the first n entries of str
RECURSIVE ap_hashLoop(_, _)
ap_hashLoop(str, n) ==
    IF n = 0 THEN 0
    ELSE FAdd(FAdd(FMul(ap_hashLoop(str, n - 1), ap_base), str[n]), ap_prime)

\* basePow after i iterations of Mul(...).Mod(...)
RECURSIVE ap_basePow(_)
ap_basePow(i) == IF i = 0 THEN 1 ELSE (ap_basePow(i - 1) * ap_base) % ap_prime

\* currentHash on entry to the window at offset i
RECURSIVE ap_currentHash(_, _)
ap_currentHash(circuit, i) ==
    IF i = 0 THEN ap_hashLoop(circuit.Str2, Len(circuit.Str1))
    ELSE LET h0 == ap_currentHash(circuit, i - 1)
             h1 == FSub(h0, FMul(circuit.Str2[i], toField(ap_basePow(Len(circuit.Str1) - 1))))
             h2 == FMul(h1, ap_base)
             h3 == FAdd(h2, circuit.Str2[i + Len(circuit.Str1)])
         IN FAdd(h3, ap_prime)

ap_isMatch(circuit, i) ==
    IsZero(FSub(ap_currentHash(circuit, i), ap_hashLoop(circuit.Str1, Len(circuit.Str1))))

\* found after the window at offset i
RECURSIVE ap_found(_, _)
ap_found(circuit, i) ==
    IF i < 0 THEN 0
    ELSE Or(ap_found(circuit, i - 1), ap_isMatch(circuit, i))

\* api.AssertIsEqual(found, 1)
ap_Define(circuit) == ap_found(circuit, lastOffset(circuit)) = 1

\* ---- evaluating a circuit on an assignment

FixedAssignments ==
    { [Str1 |-> s1, Str2 |-> s2, EffectiveLength |-> fixedStr1Len] :
        s1 \in [1..fixedStr1Len -> Chars], s2 \in [1..fixedStr2Len -> Chars] }

EffAssignments ==
    { [Str1 |-> s1, Str2 |-> s2, EffectiveLength |-> n] :
        s1 \in [1..effStr1Len -> Chars], s2 \in [1..effStr2Len -> Chars],
        n \in 1..effStr1Len }

InitCircuits ==
    /\ InitDriver
    /\ rebuilt = NoTree
    /\ verdict = NoVerdict
    /\ \/ program \in {"rk", "rk2", "sw", "ap"} /\ assignment \in FixedAssignments
       \/ program = "eff" /\ assignment \in EffAssignments

\* what an evaluation leaves behind: found, the outcome of the assertion, the
\* constant basePowVar (effective-length program) and the values of
\* patternHash and of currentHash on entry to each window (part_002)
Evaluated(found, accepted) ==
    [found |-> found, accepted |-> accepted, done |-> TRUE,
     basePowVar |-> 0, patternHash |-> 0, currentHash |-> <<>>]

DefineRK ==
    /\ program = "rk"
    /\ ~verdict.done
    /\ verdict' = Evaluated(rk_found(assignment, lastOffset(assignment)),
                            rk_Define(assignment))
    /\ UNCHANGED <<driverVars, rebuilt, program, assignment>>

DefineRK2 ==
    /\ program = "rk2"
    /\ ~verdict.done
    /\ verdict' = Evaluated(rk2_found(assignment, lastOffset(assignment)),
                            rk2_Define(assignment))
    /\ UNCHANGED <<driverVars, rebuilt, program, assignment>>

DefineEff ==
    /\ program = "eff"
    /\ ~verdict.done
    /\ \E v \in Int64(eff_basePow(assignment.EffectiveLength)) :
          verdict' = [Evaluated(eff_found(assignment, toField(v),
                                          Len(assignment.Str2) - assignment.EffectiveLength),
                                eff_Define(assignment, toField(v)))
                      EXCEPT !.basePowVar = v]
    /\ UNCHANGED <<driverVars, rebuilt, program, assignment>>

DefineSW ==
    /\ program = "sw"
    /\ ~verdict.done
    /\ verdict' = Evaluated(sw_found(assignment, lastOffset(assignment)),
                            sw_Define(assignment))
    /\ UNCHANGED <<driverVars, rebuilt, program, assignment>>

DefineAP ==
    /\ program = "ap"
    /\ ~verdict.done
    /\ verdict' = [Evaluated(ap_found(assignment, lastOffset(assignment)),
                             ap_Define(assignment))
                   EXCEPT !.patternHash = ap_hashLoop(assignment.Str1, Len(assignment.Str1)),
                          !.currentHash = [k \in 1..(lastOffset(assignment) + 1) |->
                                              ap_currentHash(assignment, k - 1)]]
    /\ UNCHANGED <<driverVars, rebuilt, program, assignment>>

NextCircuits ==
    \/ DefineRK
    \/ DefineRK2
    \/ DefineEff
    \/ DefineSW
    \/ DefineAP

SpecCircuits == InitCircuits /\ [][NextCircuits]_vars

---------------------------------------------------------------------------
(* main of the effective-length rolling-hash driver.  Strings are byte      *)
(* sequences here: the driver slices and indexes the Go string itself.      *)

\* the value of an array entry that was never assigned
Nil == -1

ByteStrings(maxLen) == UNION { [1..n -> Chars] : n \in 0..maxLen }

\* "if len(superLongString) > maxStr2Len { superLongString = superLongString[:maxStr2Len] }"
eff_truncate_none(superLongString) == superLongString

eff_truncate(superLongString) ==
    IF Len(superLongString) > effStr2Len
    THEN SubSeq(superLongString, 1, effStr2Len)
    ELSE superLongString

convertStringToFixedArray(s, maxLen) ==
    [i \in 1..effStr2Len |-> IF i <= maxLen /\ i <= Len(s) THEN s[i] ELSE Nil]

convertStringToFixedArrayZeroPad(s) ==
    [i \in 1..effStr1Len |-> IF i <= Len(s) THEN s[i] ELSE 0]

InitEffDriver ==
    /\ InitDriver
    /\ rebuilt = NoTree
    /\ program = "effDriver"
    /\ assignment = NoAssignment
    /\ verdict = NoVerdict

\* loadJSONFile twice; a failure is log.Fatalf
effLoadInputs ==
    /\ program = "effDriver"
    /\ pc = "load"
    /\ \/ /\ \E entries \in ByteStrings(effStr2Len + 1), n \in 0..MaxQueries :
                /\ decodedEntries' = entries
                /\ remaining' = n
          /\ pc' = "str2"
       \/ /\ pc' = "fatalLoad"
          /\ UNCHANGED <<decodedEntries, remaining>>
    /\ UNCHANGED <<superString, merkleTree, idx, substring, proofLength, witness,
                   stats, calls, outcome>>
    /\ UNCHANGED others

\* truncation and the conversion of Str2
effBuildStr2 ==
    /\ program = "effDriver"
    /\ pc = "str2"
    /\ superString' = eff_truncate(decodedEntries)
    /\ assignment' = [assignment EXCEPT
                         !.Str2 = convertStringToFixedArray(superString', effStr2Len)]
    /\ pc' = "loop"
    /\ UNCHANGED <<decodedEntries, merkleTree, remaining, idx, substring, proofLength,
                   witness, stats, calls, outcome>>
    /\ UNCHANGED <<rebuilt, program, verdict>>

\* the head of the loop body: the empty check and the circuit value
effNextQuery ==
    /\ program = "effDriver"
    /\ pc = "loop"
    /\ remaining > 0
    /\ remaining' = remaining - 1
    /\ \E q \in ByteStrings(effStr1Len) :
          IF q = <<>>
          THEN endIteration("empty", FALSE) /\ UNCHANGED assignment
          ELSE /\ substring' = q
               /\ assignment' = [Str1 |-> convertStringToFixedArrayZeroPad(q),
                                 Str2 |-> assignment.Str2,
                                 EffectiveLength |-> Len(q)]
               /\ pc' = "compile"
               /\ UNCHANGED <<idx, proofLength, witness, outcome>>
    /\ UNCHANGED <<decodedEntries, superString, merkleTree, stats, calls>>
    /\ UNCHANGED <<rebuilt, program, verdict>>

\* what every step of the loop body leaves alone
effFrame ==
    /\ UNCHANGED <<decodedEntries, superString, merkleTree, remaining, stats>>
    /\ UNCHANGED others

effStay == UNCHANGED <<idx, substring, proofLength, witness, outcome>>

\* frontend.Compile, inside the loop; an error is log.Fatalf
effCompile ==
    /\ program = "effDriver"
    /\ pc = "compile"
    /\ calls' = calls \cup {<<idx, "Compile">>}
    /\ pc' \in {"setup", "fatalCompile"}
    /\ effStay
    /\ effFrame

\* groth16.Setup, inside the loop; an error is log.Fatalf
effSetup ==
    /\ program = "effDriver"
    /\ pc = "setup"
    /\ calls' = calls \cup {<<idx, "Setup">>}
    /\ pc' \in {"newWitness", "fatalSetup"}
    /\ effStay
    /\ effFrame

\* frontend.NewWitness; an entry of Str2 left unassigned is an error, and an
\* error is log.Fatalf
effNewWitness ==
    /\ program = "effDriver"
    /\ pc = "newWitness"
    /\ calls' = calls \cup {<<idx, "NewWitness">>}
    /\ \/ /\ \A i \in 1..effStr2Len : assignment.Str2[i] # Nil
          /\ pc' = "prove"
       \/ pc' = "fatalWitness"
    /\ effStay
    /\ effFrame

\* groth16.Prove: no proof exists unless the assignment satisfies Define;
\* an error is log.Fatalf
effProve ==
    /\ program = "effDriver"
    /\ pc = "prove"
    /\ calls' = calls \cup {<<idx, "Prove">>}
    /\ \/ /\ \E v \in Int64(eff_basePow(assignment.EffectiveLength)) :
                eff_Define(assignment, toField(v))
          /\ pc' = "public"
       \/ pc' = "fatalProve"
    /\ effStay
    /\ effFrame

\* witnessInstance.Public; an error is log.Fatalf
effPublic ==
    /\ program = "effDriver"
    /\ pc = "public"
    /\ pc' \in {"verify", "fatalPublic"}
    /\ UNCHANGED calls
    /\ effStay
    /\ effFrame

\* groth16.Verify: either message, then the next query
effVerify ==
    /\ program = "effDriver"
    /\ pc = "verify"
    /\ calls' = calls \cup {<<idx, "Verify">>}
    /\ \/ endIteration("failed", OccursIn(substring, superString))
       \/ endIteration("verified", OccursIn(substring, superString))
    /\ effFrame

\* the end of the list
effDone ==
    /\ program = "effDriver"
    /\ pc = "loop"
    /\ remaining = 0
    /\ pc' = "done"
    /\ UNCHANGED <<idx, substring, proofLength, witness, outcome, calls>>
    /\ effFrame

NextEffDriver ==
    \/ effLoadInputs
    \/ effBuildStr2
    \/ effNextQuery
    \/ effCompile
    \/ effSetup
    \/ effNewWitness
    \/ effProve
    \/ effPublic
    \/ effVerify
    \/ effDone

SpecEffDriver == InitEffDriver /\ [][NextEffDriver]_vars

(* ------------------------------------------------------------------------ *)
(* The two drivers up to the point where the corpus has been cut and handed *)
(* to NewMerkleTree (part_001) or to convertStringToFixedArray (part_000).  *)
(* ------------------------------------------------------------------------ *)

InitTrunc ==
    /\ InitDriver
    /\ rebuilt = NoTree
    /\ program \in {"membership", "effDriver"}
    /\ assignment = NoAssignment
    /\ verdict = NoVerdict

membershipLoadInputs == program = "membership" /\ LoadInputs

membershipBuildTree == program = "membership" /\ BuildTree

NextTrunc ==
    \/ membershipLoadInputs
    \/ membershipBuildTree
    \/ effLoadInputs
    \/ effBuildStr2

SpecTrunc == InitTrunc /\ [][NextTrunc]_vars

---------------------------------------------------------------------------
(* Properties of the membership driver *)

NotFoundResults == {"notFound", "notFoundNonZero"}

InFlight == {"newWitness", "prove", "public", "verify"}

\* C1: completeness of membership.  Every query that is a qualifying substring
\* of the corpus gets a non-zero proofLength from GenerateProof (it is never
\* classified as not found), and the witness main builds for it satisfies the
\* circuit: the masked chain from Hash(pad(s)) ends at the tree's Root.  This
\* includes a committed set of exactly one element.
C1_Completeness ==
    /\ \A i \in 1..Len(outcome) :
          outcome[i].occurs => outcome[i].result \notin NotFoundResults
    /\ (pc = "newWitness" /\ Qualifying(substring)) =>
          /\ proofLength >= 1
          /\ witness.Str1 = padStr1(substring)
          /\ witness.MerkleRoot = merkleTree.Root
          /\ Define(witness)

\* C1 holds for every tree of two or more leaves (what remains of C1 once the
\* one-element set is set aside)
C1_CompletenessTwoLeaves ==
    Len(merkleTree.Leaves) >= 2 => C1_Completeness

CallsOf(op) == { c \in calls : c[2] = op }

\* the run has ended
Ended == pc \in {"done", "panic", "fatal", "fatalLoad", "fatalCompile", "fatalSetup",
                 "fatalWitness", "fatalProve", "fatalPublic"}

\* C11: per-query failures do not stop the batch.  In the effective-length
\* driver (as in the membership driver), a failure of witness construction,
\* proof generation or public-witness extraction for one query does not end
\* the run while later queries remain; a run that ends with queries unread
\* ended in input loading, compilation or key setup.
C11_FailuresDoNotStop ==
    (program = "effDriver" /\ Ended /\ remaining > 0) =>
        pc \in {"fatalLoad", "fatalCompile", "fatalSetup"}

\* C11 for the membership driver: a run that ends with queries unread ended
\* before the first query (loading, tree building, compilation or key setup)
C11_MembershipContinues ==
    (program = "membership" /\ Ended /\ remaining > 0) =>
        /\ outcome = <<>>
        /\ idx = 0
        /\ \A c \in calls : c[1] = -1

\* C12: every per-query outcome is tallied.  Whenever the membership driver
\* is between two queries or past the last one, SuccessfulProofs +
\* FailedProofs + NotFoundPatterns equals the number of non-empty queries
\* gone through, and every query whose proof generation failed is counted in
\* FailedProofs.
C12_EveryOutcomeTallied ==
    (program = "membership" /\ pc \in {"loop", "done"}) =>
        /\ stats.SuccessfulProofs + stats.FailedProofs + stats.NotFoundPatterns =
              Cardinality({ i \in 1..Len(outcome) : outcome[i].result # "empty" })
        /\ stats.FailedProofs >=
              Cardinality({ i \in 1..Len(outcome) : outcome[i].result = "proveError" })

\* the first n elements of s, or all of s when it has fewer
prefixOf(s, n) == [i \in 1..(IF Len(s) < n THEN Len(s) ELSE n) |-> s[i]]

\* C13: truncation.  Once a driver has built its tree or its Str2 array, the
\* corpus it used is the prefix of the loaded corpus of at most the maximum
\* length (the whole corpus when that is no longer than the maximum), the
\* tree is the tree of that prefix and Str2 is the array of that prefix, and
\* every corpus with the same prefix gives the same Root (membership driver)
\* and the same Str2 (rolling-hash driver).
C13_Truncation ==
    /\ (program = "membership" /\ pc \in {"compile", "panic"}) =>
          LET p == prefixOf(decodedEntries, maxStr2Len)
          IN /\ superString = p
             /\ Len(decodedEntries) <= maxStr2Len => superString = decodedEntries
             /\ Len(decodedEntries) > maxStr2Len => Len(superString) = maxStr2Len
             /\ pc = "compile" =>
                  /\ merkleTree \in NewMerkleTree(p, maxStr1Len)
                  /\ \A other \in Strings(maxStr2Len + 1) :
                        prefixOf(other, maxStr2Len) = p =>
                            \A t \in NewMerkleTree(truncate(other), maxStr1Len) :
                                t.Root = merkleTree.Root
    /\ (program = "effDriver" /\ pc = "loop") =>
          LET p == prefixOf(decodedEntries, effStr2Len)
          IN /\ superString = p
             /\ Len(decodedEntries) <= effStr2Len => superString = decodedEntries
             /\ Len(decodedEntries) > effStr2Len => Len(superString) = effStr2Len
             /\ assignment.Str2 =
                    [i \in 1..effStr2Len |-> IF i <= Len(p) THEN p[i] ELSE Nil]
             /\ \A other \in ByteStrings(effStr2Len + 1) :
                    prefixOf(other, effStr2Len) = p =>
                        convertStringToFixedArray(eff_truncate(other), effStr2Len)
                            = assignment.Str2

\* a corpus longer than the maximum was cut, and its tree is not the tree
\* the whole corpus would have given
C13_Witness ==
    /\ program = "membership"
    /\ pc = "compile"
    /\ Len(decodedEntries) > maxStr2Len
    /\ superString # decodedEntries
    /\ \E t \in NewMerkleTree(decodedEntries, maxStr1Len) : t.Root # merkleTree.Root

\* the least m with 2 * m >= n
ceilHalf(n) == CHOOSE m \in 0..n : 2 * m >= n /\ 2 * (m - 1) < n

\* the least h with 2^h >= n, for n >= 1
ceilLog2(n) == CHOOSE h \in 0..n : pow(2, h) >= n /\ (h > 0 => pow(2, h - 1) < n)

\* C15: tree structure.  In every tree the driver has built, Nodes starts
\* with the leaf sequence, each further level has half as many elements
\* (rounded up) and its k-th element is the hash of the pair (2k, 2k+1) of
\* the level below, with zero in place of a missing right element; the last
\* level is the single element Root, and there are ceil(log2(n)) levels
\* above the n leaves.
C15_TreeStructure ==
    (program = "membership" /\ merkleTree # NoTree) =>
        LET Nodes == merkleTree.Nodes
            n     == Len(merkleTree.Leaves)
        IN /\ n >= 1
           /\ Nodes[1] = merkleTree.Leaves
           /\ \A i \in 1..(Len(Nodes) - 1) :
                 /\ Len(Nodes[i + 1]) = ceilHalf(Len(Nodes[i]))
                 /\ \A k \in 0..(Len(Nodes[i + 1]) - 1) :
                       Nodes[i + 1][k + 1] =
                           mimcSum(<<Nodes[i][2 * k + 1],
                                     IF 2 * k + 1 < Len(Nodes[i])
                                     THEN Nodes[i][2 * k + 2] ELSE 0>>)
           /\ Len(Nodes[Len(Nodes)]) = 1
           /\ merkleTree.Root = Nodes[Len(Nodes)][1]
           /\ Len(Nodes) - 1 = ceilLog2(n)

\* a tree with a level of odd length above one: its tail was paired with zero
C15_Witness ==
    /\ program = "membership"
    /\ merkleTree # NoTree
    /\ \E i \in 1..(Len(merkleTree.Nodes) - 1) :
          /\ Len(merkleTree.Nodes[i]) % 2 = 1
          /\ Len(merkleTree.Nodes[i]) > 1
          /\ merkleTree.Nodes[i + 1][Len(merkleTree.Nodes[i + 1])] =
                mimcSum(<<merkleTree.Nodes[i][Len(merkleTree.Nodes[i])], 0>>)

\* the index of the level-l ancestor of leaf leafIndex, and of its sibling
ancestorIndex(leafIndex, l) == leafIndex \div pow(2, l)

siblingOf(j) == IF j % 2 = 0 THEN j + 1 ELSE j - 1

\* C16: proof walk.  For every pattern of a built tree, with leaf index idx,
\* GenerateProof returns at every level l below the tree height the node of
\* level l at index (idx div 2^l) XOR 1 when the level has that index and 0
\* otherwise, the direction (idx div 2^l) mod 2, zeros from the tree height
\* on, and proofLength = len(Nodes) - 1 whatever the leaf; the proof the
\* driver holds for the query in hand is that one.
C16_ProofWalk ==
    (program = "membership" /\ merkleTree # NoTree
        /\ Len(merkleTree.Nodes) - 1 <= maxProofLen) =>
        LET Nodes  == merkleTree.Nodes
            height == Len(Nodes) - 1
        IN /\ \A p \in DOMAIN merkleTree.PatternToIndex :
                 LET leafIndex == merkleTree.PatternToIndex[p]
                     proof     == GenerateProof(merkleTree, p)
                 IN /\ proof.proofLength = height
                    /\ \A l \in 0..(height - 1) :
                          LET j == ancestorIndex(leafIndex, l)
                          IN /\ proof.proofPath[l + 1] =
                                   (IF siblingOf(j) < Len(Nodes[l + 1])
                                    THEN Nodes[l + 1][siblingOf(j) + 1] ELSE 0)
                             /\ proof.proofDir[l + 1] = j % 2
                    /\ \A l \in height..(maxProofLen - 1) :
                          proof.proofPath[l + 1] = 0 /\ proof.proofDir[l + 1] = 0
           /\ pc = "newWitness" =>
                 /\ proofLength = height
                 /\ witness.ProofPath = GenerateProof(merkleTree, substring).proofPath
                 /\ witness.ProofPathDir = GenerateProof(merkleTree, substring).proofDir

\* a proof was generated for a leaf that has a sibling at one level and none
\* at another
C16_Witness ==
    /\ program = "membership"
    /\ pc = "newWitness"
    /\ proofLength > 1
    /\ substring \in DOMAIN merkleTree.PatternToIndex
    /\ LET leafIndex == merkleTree.PatternToIndex[substring]
       IN /\ \E l \in 0..(proofLength - 1) :
                siblingOf(ancestorIndex(leafIndex, l)) >= Len(merkleTree.Nodes[l + 1])
          /\ \E l \in 0..(proofLength - 1) :
                /\ siblingOf(ancestorIndex(leafIndex, l)) < Len(merkleTree.Nodes[l + 1])
                /\ witness.ProofPathDir[l + 1] = 1

\* a comes strictly before b in lexicographic order
lexBefore(a, b) ==
    \E k \in 1..(Len(b)) :
        /\ \A j \in 1..(k - 1) : j <= Len(a) /\ a[j] = b[j]
        /\ \/ k = Len(a) + 1
           \/ k <= Len(a) /\ a[k] < b[k]

\* C17: enumeration.  The patterns of every built tree are exactly the
\* qualifying substrings of the corpus (length 1 to maxStr1Len, fitting in
\* the corpus, every rune an ASCII letter, a digit or one of '-', '.', '*'),
\* each once, in ascending lexicographic order; PatternToIndex maps the i-th
\* pattern to i and nothing else, and the i-th leaf is the hash of the padded
\* i-th pattern.
C17_Enumeration ==
    (program = "membership" /\ merkleTree # NoTree) =>
        LET patterns == merkleTree.Patterns
            n        == Len(patterns)
        IN /\ { patterns[i] : i \in 1..n } = { q \in Strings(maxStr1Len) : Qualifying(q) }
           /\ \A i, j \in 1..n : i < j => lexBefore(patterns[i], patterns[j])
           /\ DOMAIN merkleTree.PatternToIndex = { patterns[i] : i \in 1..n }
           /\ \A i \in 1..n : merkleTree.PatternToIndex[patterns[i]] = i - 1
           /\ Len(merkleTree.Leaves) = n
           /\ \A i \in 1..n :
                 merkleTree.Leaves[i] =
                     mimcSum([k \in 1..maxStr1Len |->
                                IF k <= Len(patterns[i]) THEN patterns[i][k] ELSE 0])

\* a tree over a corpus with a repeated substring and a rune that is not
\* allowed: the repetition is committed once, the windows over '#' not at all
C17_Witness ==
    /\ program = "membership"
    /\ merkleTree # NoTree
    /\ \E i \in 1..Len(superString) : superString[i] \notin AllowedRunes
    /\ \E i, j \in 1..Len(superString) :
          i < j /\ superString[i] = superString[j] /\ superString[i] \in AllowedRunes
    /\ Len(merkleTree.Patterns) = 1

\* C14: compile-once ordering.  In the effective-length driver (as in the
\* membership driver) Compile and Setup are each called at most once in a
\* run, no Prove or Verify precedes them, and Verify is called for a query
\* only after Prove was called for it.
C14_CompileOnce ==
    program = "effDriver" =>
        /\ Cardinality(CallsOf("Compile")) <= 1
        /\ Cardinality(CallsOf("Setup")) <= 1
        /\ (CallsOf("Prove") \cup CallsOf("Verify")) # {} =>
              (CallsOf("Compile") # {} /\ CallsOf("Setup") # {})
        /\ \A c \in CallsOf("Verify") : <<c[1], "Prove">> \in calls

\* C14 for the membership driver: one Compile and one Setup, both before the
\* loop, and Verify for a query only after Prove for that query
C14_MembershipCompileOnce ==
    program = "membership" =>
        /\ CallsOf("Compile") \subseteq {<<-1, "Compile">>}
        /\ CallsOf("Setup") \subseteq {<<-1, "Setup">>}
        /\ (\E c \in calls : c[1] >= 0) =>
              (<<-1, "Compile">> \in calls /\ <<-1, "Setup">> \in calls)
        /\ \A c \in CallsOf("Verify") : <<c[1], "Prove">> \in calls

\* C6: determinism of the commitment.  A second NewMerkleTree over the same
\* corpus and the same maxPatternLen gives the same sorted pattern list, the
\* same PatternToIndex map, the same leaf sequence, the same levels and the
\* same Root as the first, whatever order the substring set was iterated in
\* by either of them.
C6_Determinism ==
    rebuilt # NoTree =>
        /\ rebuilt.Patterns = merkleTree.Patterns
        /\ rebuilt.PatternToIndex = merkleTree.PatternToIndex
        /\ rebuilt.Leaves = merkleTree.Leaves
        /\ rebuilt.Nodes = merkleTree.Nodes
        /\ rebuilt.Root = merkleTree.Root

\* a set of three or more patterns, which a map can iterate in six or more
\* orders, was committed twice
C6_Witness ==
    /\ rebuilt # NoTree
    /\ Len(rebuilt.Patterns) >= 3
    /\ Cardinality(RangeOrders(substrSetOf(superString, maxStr1Len))) >= 6
    /\ rebuilt.Root = merkleTree.Root

---------------------------------------------------------------------------
(* Properties of the membership circuit as a relation on witnesses *)

\* the padded leaves and the pairs hashed by buildLevels
TreeHashInputs ==
    { padStr1(merkleTree.Patterns[i]) : i \in 1..Len(merkleTree.Patterns) } \cup
    UNION { { <<merkleTree.Nodes[l][2 * k - 1],
                IF 2 * k <= Len(merkleTree.Nodes[l]) THEN merkleTree.Nodes[l][2 * k] ELSE 0>> :
              k \in 1..((Len(merkleTree.Nodes[l]) + 1) \div 2) } :
            l \in 1..(Len(merkleTree.Nodes) - 1) }

\* what the circuit hashes on a witness: Str1 and the pair of every iteration
\* whose mask is not zero
CircuitHashInputs(w) ==
    {w.Str1} \cup
    { chainPair(w, chainAt(w, i), i) : i \in { j \in 1..maxProofLen : w.Masks[j] # 0 } }

\* "the hash is injective": among the inputs hashed for the tree, for the
\* honest witness and for the witness at hand, distinct inputs have distinct
\* digests, and no digest is the zero that stands for an absent sibling
HashInjective ==
    LET inputs == TreeHashInputs \cup CircuitHashInputs(honestWitness)
                    \cup CircuitHashInputs(witness)
        digests == { mimcSum(a) : a \in inputs }
    IN /\ Cardinality(digests) = Cardinality(inputs)
       /\ 0 \notin digests

\* the witnesses the tree topology gives for its committed patterns
TreeWitnesses ==
    { buildWitness(merkleTree, p, GenerateProof(merkleTree, p)) :
        p \in DOMAIN merkleTree.PatternToIndex }

PathDiff == { i \in 1..maxProofLen : witness.ProofPath[i] # honestWitness.ProofPath[i] }

DirDiff == { i \in 1..maxProofLen : witness.ProofPathDir[i] # honestWitness.ProofPathDir[i] }

MaskDiff == { i \in 1..maxProofLen : witness.Masks[i] # honestWitness.Masks[i] }

StrDiff == { j \in 1..maxStr1Len : witness.Str1[j] # honestWitness.Str1[j] }

treeHeight == Len(merkleTree.Nodes) - 1

\* exactly one sibling, direction or pattern character differs from the
\* accepting witness main built
SingleChange ==
    /\ pc = "newWitness"
    /\ Define(honestWitness)
    /\ MaskDiff = {}
    /\ Cardinality(PathDiff) + Cardinality(DirDiff) + Cardinality(StrDiff) = 1

\* C2: membership soundness.  The circuit's final assertion holds for a
\* witness if and only if Str1 is the padded form of a committed pattern and
\* path, directions and masks are exactly those the tree gives for that leaf;
\* assuming the hash is injective.
C2_Soundness ==
    (pc = "newWitness" /\ HashInjective) =>
        (Define(witness) <=> witness \in TreeWitnesses)

\* the part of C2 that matters to a verifier: an accepted Str1 is the padded
\* form of a committed pattern
C2_AcceptedIsMember ==
    (pc = "newWitness" /\ HashInjective /\ Define(witness)) =>
        \E i \in 1..Len(merkleTree.Patterns) : witness.Str1 = padStr1(merkleTree.Patterns[i])

\* C4 as claimed: changing any single sibling value, any single direction
\* value or any single character of Str1 of an accepting witness makes the
\* root assertion fail, assuming the hash is injective.
C4_AnySingleChange ==
    (SingleChange /\ HashInjective) => ~Define(witness)

\* the change is one the circuit reads: a sibling or direction of a level
\* below the tree height, the direction going from zero to non-zero or back
ActiveChange ==
    /\ \A i \in PathDiff : i <= treeHeight
    /\ \A i \in DirDiff :
          /\ i <= treeHeight
          /\ IsZero(witness.ProofPathDir[i]) # IsZero(honestWitness.ProofPathDir[i])

\* C4 (amended): changing a single sibling value at a level below the tree
\* height, changing a single direction at such a level between zero and
\* non-zero, or changing a single character of Str1, makes the root assertion
\* fail, assuming the hash is injective.
C4_ActiveSingleChange ==
    (SingleChange /\ ActiveChange /\ HashInjective) => ~Define(witness)

\* a direction of the top level was flipped and the witness is rejected
C4_Witness ==
    /\ SingleChange
    /\ ActiveChange
    /\ HashInjective
    /\ treeHeight >= 2
    /\ DirDiff = {treeHeight}
    /\ ~Define(witness)

\* C5: mask correctness.  For a tree of height h < maxProofLen the witness
\* main builds has Masks[i] = 1 exactly for i < h, and Masks, ProofPath and
\* ProofPathDir zero from h on; and replacing ProofPath or ProofPathDir at
\* indices from h on by other values leaves the final currentHash, and the
\* outcome of the assertion, unchanged.
C5_MaskCorrectness ==
    (pc = "newWitness" /\ treeHeight < maxProofLen) =>
        /\ \A i \in 1..maxProofLen :
              /\ honestWitness.Masks[i] = (IF i <= treeHeight THEN 1 ELSE 0)
              /\ i > treeHeight =>
                    (honestWitness.ProofPath[i] = 0 /\ honestWitness.ProofPathDir[i] = 0)
        /\ (/\ MaskDiff = {}
            /\ StrDiff = {}
            /\ \A i \in PathDiff \cup DirDiff : i > treeHeight) =>
              /\ chainAt(witness, maxProofLen + 1) = chainAt(honestWitness, maxProofLen + 1)
              /\ Define(witness) <=> Define(honestWitness)

\* a sibling above the tree height was replaced by a node value and the
\* witness is still accepted
C5_Witness ==
    /\ pc = "newWitness"
    /\ treeHeight >= 1
    /\ \E i \in (treeHeight + 1)..maxProofLen :
          /\ PathDiff = {i}
          /\ witness.ProofPath[i] = merkleTree.Root
    /\ DirDiff = {}
    /\ MaskDiff = {}
    /\ StrDiff = {}
    /\ Define(witness)

\* from iteration i on, with currentHash = cur before it, every iteration of
\* the loop of Define leaves currentHash alone under a mask of 0 and hashes
\* the ordered pair under a mask of 1, and the value after iteration
\* maxProofLen is the one the assertion compares with MerkleRoot
RECURSIVE gatedSteps(_, _, _)
gatedSteps(circuit, cur, i) ==
    \/ i > maxProofLen /\ (Define(circuit) <=> cur = circuit.MerkleRoot)
    \/ \E next \in {chainStep(circuit, cur, i)} :
          /\ circuit.Masks[i] = 0 => next = cur
          /\ circuit.Masks[i] = 1 =>
                next = (IF circuit.ProofPathDir[i] = 0
                        THEN mimcSum(<<cur, circuit.ProofPath[i]>>)
                        ELSE mimcSum(<<circuit.ProofPath[i], cur>>))
          /\ gatedSteps(circuit, next, i + 1)

\* C18: mask-gated chain step.  For every witness handed to the circuit, in
\* iteration i of the chain loop a mask of 0 leaves currentHash unchanged and
\* a mask of 1 replaces it by Hash(currentHash, ProofPath[i]) when
\* ProofPathDir[i] = 0 and by Hash(ProofPath[i], currentHash) otherwise; and
\* the value compared with MerkleRoot is the one after exactly maxProofLen
\* iterations, whatever the tree height.
C18_MaskGatedStep ==
    (program = "membership" /\ pc = "newWitness") =>
        \E patternHash \in {mimcSum(witness.Str1)} : gatedSteps(witness, patternHash, 1)

\* a witness of a tree lower than maxProofLen with an active iteration whose
\* direction is neither 0 nor 1 and an inactive iteration
C18_Witness ==
    /\ program = "membership"
    /\ pc = "newWitness"
    /\ treeHeight < maxProofLen
    /\ \E i \in 1..maxProofLen :
          witness.Masks[i] = 1 /\ witness.ProofPathDir[i] \notin {0, 1}
    /\ \E i \in 1..maxProofLen : witness.Masks[i] = 0
    /\ chainAt(witness, maxProofLen + 1) # chainAt(witness, 1)

---------------------------------------------------------------------------
(* Properties of the sliding-window and rolling-hash circuits *)

\* the first n entries of Str1 are the window of Str2 at offset i
WindowEquals(circuit, n, i) ==
    \A j \in 1..n : circuit.Str2[i + j] = circuit.Str1[j]

\* the offsets at which the first n entries of Str1 occur in Str2
MatchOffsets(circuit, n) ==
    { i \in 0..(Len(circuit.Str2) - n) : WindowEquals(circuit, n, i) }

\* C7: rolling hash with exact-match fallback.  After the window loop found
\* is 1 if and only if some offset i in 0..N-P has Str2[i+j] = Str1[j] for
\* every j; a window whose hash equals the pattern hash but whose characters
\* differ contributes nothing to found, and a window whose characters all
\* match contributes 1.
C7_ExactMatchFallback ==
    (program = "rk" /\ verdict.done) =>
        /\ verdict.found = (IF MatchOffsets(assignment, fixedStr1Len) # {} THEN 1 ELSE 0)
        /\ verdict.accepted <=> MatchOffsets(assignment, fixedStr1Len) # {}
        /\ \A i \in 0..lastOffset(assignment) :
              And(rk_isMatch(assignment, i), rk_charMatch(assignment, i)) =
                 (IF WindowEquals(assignment, fixedStr1Len, i) THEN 1 ELSE 0)

\* every window has the pattern's hash, none has its characters, and found
\* stayed 0
C7_Witness ==
    /\ program = "rk"
    /\ verdict.done
    /\ \A i \in 0..lastOffset(assignment) :
          /\ rk_isMatch(assignment, i) = 1
          /\ ~WindowEquals(assignment, fixedStr1Len, i)
    /\ verdict.found = 0
    /\ ~verdict.accepted

\* C8: rolling-hash rejection of an absent pattern.  When Str1 does not occur
\* as a contiguous window of Str2, found stays 0 through every window offset
\* and the assertion found == 1 is violated.
C8_AbsentRejected ==
    (program = "rk2" /\ verdict.done /\ MatchOffsets(assignment, fixedStr1Len) = {}) =>
        /\ \A i \in 0..lastOffset(assignment) : rk2_found(assignment, i) = 0
        /\ verdict.found = 0
        /\ ~verdict.accepted

\* C9: rolling-hash acceptance of a present pattern.  For every effective
\* length L and every corpus, if the first L characters of Str1 occur as a
\* window of Str2 at any offset in 0..N-L, the last one included, then found
\* is 1 at the end of the window loop and the assertion holds.
C9_PresentAccepted ==
    (/\ program = "eff"
     /\ verdict.done
     /\ MatchOffsets(assignment, assignment.EffectiveLength) # {}) =>
        /\ verdict.found = 1
        /\ verdict.accepted

\* C9 holds for the lengths whose basePow fits the integer
C9_PresentAcceptedFits ==
    eff_basePow(assignment.EffectiveLength) \in IntRange => C9_PresentAccepted

\* C10: the direct sliding window.  The assertion found == 1 holds if and
\* only if the whole pattern occurs contiguously somewhere in the corpus; in
\* particular a corpus that has the pattern's last character but not the
\* pattern is rejected.
C10_WholePattern ==
    (program = "sw" /\ verdict.done) =>
        (verdict.accepted <=> MatchOffsets(assignment, fixedStr1Len) # {})

\* what main.go computes: found is 1 if and only if the last character of
\* the pattern is at some offset where a window would end
C10_LastCharacterOnly ==
    (program = "sw" /\ verdict.done) =>
        (verdict.accepted <=>
            \E i \in 0..lastOffset(assignment) :
                assignment.Str2[i + fixedStr1Len] = assignment.Str1[fixedStr1Len])


\* C19: rolling-update invariant of part_002.  On entry to the window at every
\* offset i in 0..N-P, currentHash is the value the accumulation that gave
\* patternHash from Str1 gives on Str2[i..i+P), so a window equal to the
\* pattern, at any offset, has currentHash = patternHash.
C19_RollingInvariant ==
    (program = "ap" /\ verdict.done) =>
        \A i \in 0..lastOffset(assignment) :
            LET P      == Len(assignment.Str1)
                window == SubSeq(assignment.Str2, i + 1, i + P)
            IN /\ verdict.currentHash[i + 1] = ap_hashLoop(window, P)
               /\ WindowEquals(assignment, P, i) =>
                     verdict.currentHash[i + 1] = verdict.patternHash

\* C19 at offset 0, where no rolling update has been applied
C19_FirstWindow ==
    (program = "ap" /\ verdict.done) =>
        /\ verdict.currentHash[1] =
              ap_hashLoop(SubSeq(assignment.Str2, 1, Len(assignment.Str1)),
                          Len(assignment.Str1))
        /\ WindowEquals(assignment, Len(assignment.Str1), 0) =>
              verdict.currentHash[1] = verdict.patternHash

\* C20: base power constant.  In the effective-length circuit the constant
\* basePowVar used in the rolling update equals base^(effectiveLength - 1)
\* for every effective length from 1 to the length of Str1; the conversion
\* of the big integer to a 64-bit signed integer loses nothing.
C20_BasePowConstant ==
    (program = "eff" /\ verdict.done) =>
        verdict.basePowVar = pow(eff_base, assignment.EffectiveLength - 1)

\* C20 holds for the lengths whose power fits the integer
C20_BasePowConstantFits ==
    pow(eff_base, assignment.EffectiveLength - 1) \in IntRange => C20_BasePowConstant


\* C21: data-independent shape.  The circuit the effective-length driver has
\* compiled for the query in hand runs each of its loops as many times as
\* the circuit it compiles for any other non-empty query, whatever the two
\* queries' lengths.
C21_DataIndependentShape ==
    (program = "effDriver" /\ <<idx, "Compile">> \in calls
        /\ pc \in {"setup", "newWitness", "prove", "public", "verify"}) =>
        \A other \in ByteStrings(effStr1Len) \ {<<>>} :
            eff_loopCounts([Str1 |-> convertStringToFixedArrayZeroPad(other),
                            Str2 |-> assignment.Str2,
                            EffectiveLength |-> Len(other)])
                = eff_loopCounts(assignment)

\* C21 for the membership circuit: the witness of every committed pattern,
\* whatever its length, goes through the same numbers of iterations
C21_MembershipShape ==
    (program = "membership" /\ pc = "newWitness") =>
        \A other \in DOMAIN merkleTree.PatternToIndex :
            /\ loopCounts(buildWitness(merkleTree, other, GenerateProof(merkleTree, other)))
                  = loopCounts(witness)
            /\ Len(buildWitness(merkleTree, other, GenerateProof(merkleTree, other)).Str1)
                  = Len(witness.Str1)

\* C22: proofLength 0 only for absent patterns.  For every built tree,
\* GenerateProof returns a proofLength of at least 1 for every pattern in
\* PatternToIndex, and no query the driver classified as not found is a
\* pattern of the tree.
C22_ZeroOnlyForAbsent ==
    (program = "membership" /\ merkleTree # NoTree) =>
        /\ \A p \in DOMAIN merkleTree.PatternToIndex :
              GenerateProof(merkleTree, p).proofLength >= 1
        /\ \A q \in Strings(maxStr1Len) :
              GenerateProof(merkleTree, q).proofLength = 0 =>
                  q \notin DOMAIN merkleTree.PatternToIndex
        /\ \A i \in 1..Len(outcome) :
              outcome[i].result \in NotFoundResults => ~outcome[i].occurs

\* C22 holds for every tree of two or more leaves
C22_ZeroOnlyForAbsentTwoLeaves ==
    Len(merkleTree.Leaves) >= 2 => C22_ZeroOnlyForAbsent

\* C23: the final statistics complete.  Whenever the membership driver is
\* past the last query, its final-statistics step ends the run normally,
\* also when no query reached verification.
C23_FinalStatsCompletes ==
    [][(program = "membership" /\ pc = "loop" /\ remaining = 0) => pc' = "done"]_vars

\* C23 holds when at least one query reached verification
C23_FinalStatsAfterVerify ==
    [][(/\ program = "membership" /\ pc = "loop" /\ remaining = 0
        /\ stats.SuccessfulProofs + stats.FailedProofs > 0) => pc' = "done"]_vars

===========================================================================
